---- MODULE Spec2Model ----
(***************************************************************************)
(* Model of the batch scoring pipeline of src/main.py: parse_criteria,     *)
(* extract_text_from_file, evaluate_resume and the score_resumes handler.  *)
(*                                                                         *)
(* Text is a sequence of pieces.  Every piece of a filename, a criterion,  *)
(* a dictionary key or a column label is one character, so that lower(),   *)
(* endswith() and the "in" substring test are computed character by        *)
(* character.  Fixed wording of a message is kept as one piece.            *)
(*                                                                         *)
(* A JSON / Python value is a record [t, v]: t is the type tag, v the      *)
(* payload (a number, a text, a sequence of values, or a function from     *)
(* keys to values).                                                        *)
(***************************************************************************)
EXTENDS Integers, Sequences, FiniteSets, TLC

\* Bounds of the model.
MaxFiles == 2
MaxOracleScore == 6

----------------------------------------------------------------------------
\* Text helpers (str.lower, str.endswith, "sub in s", "sep".join).

UpperCase == <<"A","B","C","D","E","F","G","H","I","J","K","L","M",
               "N","O","P","Q","R","S","T","U","V","W","X","Y","Z">>
LowerCase == <<"a","b","c","d","e","f","g","h","i","j","k","l","m",
               "n","o","p","q","r","s","t","u","v","w","x","y","z">>

LowerChar(c) ==
  IF \E i \in 1..26 : UpperCase[i] = c
  THEN LowerCase[CHOOSE i \in 1..26 : UpperCase[i] = c]
  ELSE c

Lower(s) == [i \in 1..Len(s) |-> LowerChar(s[i])]

EndsWith(s, suf) ==
  /\ Len(s) >= Len(suf)
  /\ SubSeq(s, Len(s) - Len(suf) + 1, Len(s)) = suf

Contains(s, sub) ==
  \E i \in 1..(Len(s) - Len(sub) + 1) : SubSeq(s, i, i + Len(sub) - 1) = sub

RECURSIVE Join(_, _)
Join(sep, parts) ==
  IF parts = <<>> THEN <<>>
  ELSE IF Len(parts) = 1 THEN parts[1]
  ELSE parts[1] \o sep \o Join(sep, Tail(parts))

\* Literals of the source.
DotPdf == <<".","p","d","f">>
DotDocx == <<".","d","o","c","x">>
KeyCriteria == <<"c","r","i","t","e","r","i","a">>
KeyName == <<"n","a","m","e">>
KeyScores == <<"s","c","o","r","e","s">>
KeyExplanations == <<"e","x","p","l","a","n","a","t","i","o","n","s">>
WordScore == <<"S","c","o","r","e">>
WordExplanation == <<"E","x","p","l","a","n","a","t","i","o","n">>
ColFilename == <<"F","i","l","e","n","a","m","e">>
ColCandidateName == <<"C","a","n","d","i","d","a","t","e"," ","N","a","m","e">>
ColTotalScore == <<"T","o","t","a","l"," ">> \o WordScore
ColAverageScore == <<"A","v","e","r","a","g","e"," ">> \o WordScore
SuffixScore == <<" ","(">> \o WordScore \o <<")">>
SuffixExplanation == <<" ","(">> \o WordExplanation \o <<")">>
TextUnknown == <<"U","n","k","n","o","w","n">>
TextNoExplanation == <<"No explanation provided">>

----------------------------------------------------------------------------
\* JSON / Python values.

JNull == [t |-> "null", v |-> 0]
JNum(n) == [t |-> "num", v |-> n]
JStr(s) == [t |-> "str", v |-> s]
JList(l) == [t |-> "list", v |-> l]
JDict(f) == [t |-> "dict", v |-> f]
EmptyDict == JDict(<<>>)

\* Python truthiness, as used by "if not criteria_list".
Truthy(x) ==
  CASE x.t = "null" -> FALSE
    [] x.t = "num" -> x.v # 0
    [] x.t = "str" -> x.v # <<>>
    [] x.t = "list" -> x.v # <<>>
    [] x.t = "dict" -> DOMAIN x.v # {}

\* "key in d" and d.get(key, default) of a Python dict; a key is a value,
\* and only a str value can equal one of the (textual) keys of a JSON object.
HasKey(d, key) == key.t = "str" /\ key.v \in DOMAIN d.v
DictGet(d, key, default) == IF HasKey(d, key) THEN d.v[key.v] ELSE default

\* str(x) inside an f-string, for the values a criterion can be.
RECURSIVE Digits(_)
Digits(n) ==
  IF n < 10 THEN <<<<"0","1","2","3","4","5","6","7","8","9">>[n + 1]>>
  ELSE Digits(n \div 10) \o Digits(n % 10)

Format(x) == IF x.t = "str" THEN x.v ELSE IF x.t = "num" THEN Digits(x.v) ELSE <<"?">>

----------------------------------------------------------------------------
\* Inputs of a request.

CritA == <<"A">>
CritB == <<"B">>

\* Criterion lists a client may send (possibly with repeated entries).
CriteriaLists ==
  { <<>>, <<JStr(CritA)>>, <<JStr(CritA), JStr(CritB)>>,
    <<JStr(WordScore)>>, <<JStr(CritA), JStr(CritA)>> }

\* Values found under the "criteria" key of a client's JSON.
CriteriaValues ==
  { JList(l) : l \in CriteriaLists }
    \cup { JStr(CritA \o CritB), JNum(5), JNull, JList(<<JNum(1)>>) }

\* JSON documents a client may send as criteria.
CriteriaDocs ==
  { JDict(KeyCriteria :> cv) : cv \in CriteriaValues }
    \cup { JDict(<<"c","r","i","t","e","r","i","o","n">> :> JList(<<JStr(CritA)>>)),
           JList(<<JStr(CritA)>>) }

\* The criteria parameter: JSON text (valid or not; valid text is
\* represented by the document json.loads returns for it), a mapping, a
\* typed ExtractCriteriaResponse, or a value of another type.
RawCriteria ==
  { [shape |-> "str", valid |-> TRUE, doc |-> d] : d \in CriteriaDocs }
    \cup { [shape |-> "str", valid |-> FALSE, doc |-> JNull] }
    \cup { [shape |-> "dict", valid |-> TRUE, doc |-> d] :
             d \in { x \in CriteriaDocs :
                       /\ x.t = "dict"
                       /\ \A k \in DOMAIN x.v : x.v[k] = JList(<<JStr(CritA)>>) } }
    \cup { [shape |-> "typed", valid |-> TRUE, doc |-> JList(<<JStr(CritA), JStr(CritB)>>)] }
    \cup { [shape |-> "other", valid |-> TRUE, doc |-> JNum(7)] }

Filenames ==
  { <<"a">> \o DotPdf, <<"b">> \o DotDocx,
    <<"c",".","P","D","F">>, <<"d",".","t","x","t">> }

\* A batch: up to MaxFiles files with distinct names.
FileLists ==
  UNION { { fs \in [1..n -> Filenames] : \A i, k \in 1..n : fs[i] = fs[k] => i = k } :
            n \in 0..MaxFiles }

----------------------------------------------------------------------------
\* parse_criteria.  The result is [ok |-> TRUE, value |-> returned value]
\* or [ok |-> FALSE, error |-> str(ValueError)].

MsgNeedsKeyJson == <<"JSON must contain a 'criteria' key with an array value">>
MsgNeedsKeyDict == <<"Dictionary must contain a 'criteria' key with an array value">>
MsgUnsupportedShape == <<"Unsupported criteria format">>
MsgInvalidJson == <<"Invalid JSON format: ", "<JSONDecodeError>">>
PrefixErrorParsing == <<"Error parsing criteria: ">>

Returned(x) == [ok |-> TRUE, value |-> x, error |-> <<>>]
Raised(msg) == [ok |-> FALSE, value |-> JNull, error |-> msg]

parse_criteria(criteria_input) ==
  CASE criteria_input.shape = "str" ->
         IF ~criteria_input.valid THEN Raised(MsgInvalidJson)
         ELSE IF criteria_input.doc.t = "dict"
                 /\ HasKey(criteria_input.doc, JStr(KeyCriteria))
              THEN Returned(criteria_input.doc.v[KeyCriteria])
              ELSE Raised(PrefixErrorParsing \o MsgNeedsKeyJson)
    [] criteria_input.shape = "dict" ->
         IF HasKey(criteria_input.doc, JStr(KeyCriteria))
         THEN Returned(criteria_input.doc.v[KeyCriteria])
         ELSE Raised(PrefixErrorParsing \o MsgNeedsKeyDict)
    [] criteria_input.shape = "typed" -> Returned(criteria_input.doc)
    [] OTHER -> Raised(PrefixErrorParsing \o MsgUnsupportedShape)

----------------------------------------------------------------------------
\* Results of the calls made by the processing loop: a returned value or a
\* raised exception [type, msg] (msg is str(e)).

Exc(type, msg) == [type |-> type, msg |-> msg]
NoExc == Exc("none", <<>>)
Ok(x) == [ok |-> TRUE, value |-> x, exc |-> NoExc]
Raise(type, msg) == [ok |-> FALSE, value |-> JNull, exc |-> Exc(type, msg)]

\* Outcome of the PDF / DOCX decoder on the uploaded bytes.
CodecOutcomes == {"ok", "fail"}

DetailUnsupportedType == <<"Unsupported file type. Only PDF and DOCX are allowed.">>

\* Variant: dispatch on the lower-cased filename.
extract_text_from_file_AnyCase(filename, codec) ==
  IF EndsWith(Lower(filename), DotPdf)
  THEN IF codec = "ok" THEN Ok(JStr(<<"<pdf text>">>))
       ELSE Raise("Exception", <<"<pdf decoder error>">>)
  ELSE IF EndsWith(Lower(filename), DotDocx)
  THEN IF codec = "ok" THEN Ok(JStr(<<"<docx text>">>))
       ELSE Raise("Exception", <<"<docx decoder error>">>)
  ELSE Raise("HTTPException", <<"400: ">> \o DetailUnsupportedType)

\* extract_text_from_file: dispatch on the filename as given (no lower()).
\* The text itself is opaque to the pipeline.
extract_text_from_file(filename, codec) ==
  IF EndsWith(filename, DotPdf)
  THEN IF codec = "ok" THEN Ok(JStr(<<"<pdf text>">>))
       ELSE Raise("Exception", <<"<pdf decoder error>">>)
  ELSE IF EndsWith(filename, DotDocx)
  THEN IF codec = "ok" THEN Ok(JStr(<<"<docx text>">>))
       ELSE Raise("Exception", <<"<docx decoder error>">>)
  ELSE Raise("HTTPException", <<"400: ">> \o DetailUnsupportedType)

\* What the oracle may answer: any map from a subset of OracleKeys to a
\* score, in or out of the 0..5 rubric.
OracleKeys == {CritA, CritB}
OracleVals == {0, 3, MaxOracleScore}
ScoreMaps == UNION { [K -> { JNum(x) : x \in OracleVals }] : K \in SUBSET OracleKeys }

FullResult(s) ==
  JDict((KeyName :> JStr(<<"J">>))
        @@ (KeyScores :> JDict(s))
        @@ (KeyExplanations :> JDict([k \in DOMAIN s |-> JStr(<<"ok">>)])))

\* The parsed JSON of an oracle answer: the three fields, an object without
\* any of them, or a JSON value that is not an object.
OracleResults == { FullResult(s) : s \in ScoreMaps } \cup { EmptyDict, JList(<<>>) }

\* An oracle call either fails (transport error, content that is not JSON)
\* or returns JSON.
OracleOutcomes ==
  { [kind |-> "json", value |-> r] : r \in OracleResults }
    \cup { [kind |-> "fail", value |-> JNull] }

\* evaluate_resume: every failure is re-raised as ValueError.
evaluate_resume(oracle) ==
  IF oracle.kind = "json" THEN Ok(oracle.value)
  ELSE Raise("ValueError", <<"Error evaluating resume: ", "<oracle error>">>)

----------------------------------------------------------------------------
\* Python dict with insertion order: a sequence of <<key, value>>.

RowHas(row, key) == \E i \in 1..Len(row) : row[i][1] = key
RowGet(row, key) == row[CHOOSE i \in 1..Len(row) : row[i][1] = key][2]
RowSet(row, key, val) ==
  IF RowHas(row, key)
  THEN [i \in 1..Len(row) |-> IF row[i][1] = key THEN <<key, val>> ELSE row[i]]
  ELSE Append(row, <<key, val>>)
RowKeys(row) == [i \in 1..Len(row) |-> row[i][1]]

\* "for criterion in criteria_list" over the values parse_criteria can
\* return here: a list yields its elements, a str its characters.
Iterable(x) == x.t \in {"list", "str"}
Iterate(x) ==
  IF x.t = "list" THEN x.v ELSE [i \in 1..Len(x.v) |-> JStr(<<x.v[i]>>)]

\* sum(scores.values())
RECURSIVE SumOver(_, _)
SumOver(f, keys) ==
  IF keys = {} THEN 0
  ELSE LET k == CHOOSE x \in keys : TRUE
       IN  f[k].v + SumOver(f, keys \ {k})
SumValues(d) == SumOver(d.v, DOMAIN d.v)

\* round(total / n, 2), in hundredths (round half to even).
Round2(total, n) ==
  LET q == (100 * total) \div n
      r == (100 * total) % n
  IN  IF 2 * r < n THEN q
      ELSE IF 2 * r > n THEN q + 1
      ELSE IF q % 2 = 0 THEN q ELSE q + 1

\* Variant: a missing score is filled with 1.
ScoreCell_DefaultOne(scores, criterion) == DictGet(scores, criterion, JNum(1))

\* Line 189: the score stored for one criterion.
ScoreCell(scores, criterion) == DictGet(scores, criterion, JNum(0))
\* Line 190.
ExplanationCell(explanations, criterion) ==
  DictGet(explanations, criterion, JStr(TextNoExplanation))

\* Lines 188-190: the loop over the criteria, from its i-th element.
RECURSIVE FillRow(_, _, _, _, _)
FillRow(row, crits, i, scores, explanations) ==
  IF i > Len(crits) THEN row
  ELSE FillRow(
         RowSet(RowSet(row, Format(crits[i]) \o SuffixScore,
                       ScoreCell(scores, crits[i])),
                Format(crits[i]) \o SuffixExplanation,
                ExplanationCell(explanations, crits[i])),
         crits, i + 1, scores, explanations)

\* Line 192: the value stored as Total Score.
TotalScore(scores) == SumValues(scores)

\* Lines 180-193: the row of one evaluated document, or the exception
\* raised while building it.
BuildRow(filename, result, crit_list) ==
  IF result.t # "dict"
  THEN Raise("AttributeError", <<"object has no attribute 'get'">>)
  ELSE
    LET name == DictGet(result, JStr(KeyName), JStr(TextUnknown))
        scores == DictGet(result, JStr(KeyScores), EmptyDict)
        explanations == DictGet(result, JStr(KeyExplanations), EmptyDict)
        row0 == <<<<ColFilename, JStr(filename)>>, <<ColCandidateName, name>>>>
    IN  IF ~Iterable(crit_list)
        THEN Raise("TypeError", <<"object is not iterable">>)
        ELSE IF scores.t # "dict" \/ explanations.t # "dict"
        THEN Raise("AttributeError", <<"object has no attribute 'get'">>)
        ELSE IF \E k \in DOMAIN scores.v : scores.v[k].t # "num"
        THEN Raise("TypeError", <<"unsupported operand type(s) for +">>)
        ELSE
          LET crits == Iterate(crit_list)
              row1 == FillRow(row0, crits, 1, scores, explanations)
              total == TotalScore(scores)
              row2 == RowSet(row1, ColTotalScore, JNum(total))
              row3 == RowSet(row2, ColAverageScore,
                             [t |-> "hundredths", v |-> Round2(total, Len(crits))])
          IN  Ok(row3)

\* Variant: "except ValueError".
Catches_OnlyValueError(exc) == exc.type = "ValueError"

\* "except Exception" of the processing loop: every exception type raised
\* inside the try block derives from Exception.
Catches(exc) ==
  exc.type \in {"Exception", "HTTPException", "ValueError", "AttributeError", "TypeError"}

\* Line 198.
ErrorMessage(filename, exc) ==
  <<"Error processing ">> \o filename \o <<": ">> \o exc.msg

----------------------------------------------------------------------------
\* Lines 161-169: the checks made on the whole batch before the loop.

\* Variant: the up-front check accepts every name.
ValidFilename_Skipped(filename) == TRUE

ValidFilename(filename) ==
  EndsWith(Lower(filename), DotPdf) \/ EndsWith(Lower(filename), DotDocx)

DetailNoCriterion == <<"At least one criterion is required">>
DetailNoFile == <<"At least one resume file is required">>
DetailBadFormat(filename) ==
  <<"Unsupported file format for ">> \o filename
    \o <<". Only PDF and DOCX files are accepted.">>
PrefixAllFailed == <<"No resumes could be processed successfully. Errors: ">>

\* Variant: "if errors".
NoRows_AnyError(rs, errs) == errs # <<>>

\* Line 201: "if not rows".
NoRows(rs, errs) == rs = <<>>

\* Lines 207-213: the columns of the report.
df_columns(rs) == RowKeys(rs[1])
score_cols(cols) == SelectSeq(cols, LAMBDA col : Contains(col, WordScore))
explanation_cols(cols) == SelectSeq(cols, LAMBDA col : Contains(col, WordExplanation))
base_cols == <<ColFilename, ColCandidateName>>
ReportColumns(rs) ==
  base_cols \o score_cols(df_columns(rs)) \o explanation_cols(df_columns(rs))
ReportCells(rs) ==
  LET cols == ReportColumns(rs)
  IN  [i \in 1..Len(rs) |-> [j \in 1..Len(cols) |-> RowGet(rs[i], cols[j])]]

\* Lines 229-233: the headers of the successful response.
ResponseHeaders ==
  { <<"Content-Type: application/vnd.openxmlformats-officedocument.spreadsheetml.sheet">>,
    <<"Content-Disposition: attachment; filename=resume_scores_", "<timestamp>", ".xlsx">> }

----------------------------------------------------------------------------
\* The handler score_resumes as a state machine.

VARIABLES
  pc,             \* "idle", "loop" (lines 174-199), "done"
  criteria,       \* the criteria parameter
  files,          \* the files parameter: the filenames, in order
  criteria_list,  \* line 155
  idx,            \* position of the processing loop in files
  rows,           \* line 171
  errors,         \* line 172
  response,       \* what the handler returned or raised
  trace           \* history: per document attempted, what was called, how
                  \* the iteration ended, and the oracle answer a row was
                  \* built from

vars == <<pc, criteria, files, criteria_list, idx, rows, errors, response, trace>>

NoCriteria == [shape |-> "none", valid |-> FALSE, doc |-> JNull]
NoResponse ==
  [status |-> 0, line |-> 0, detail |-> <<>>, columns |-> <<>>, cells |-> <<>>,
   headers |-> {}]
HTTPError(status, line, detail) ==
  [status |-> status, line |-> line, detail |-> detail, columns |-> <<>>,
   cells |-> <<>>, headers |-> {}]
Report(rs) ==
  [status |-> 200, line |-> 229, detail |-> <<>>, columns |-> ReportColumns(rs),
   cells |-> ReportCells(rs), headers |-> ResponseHeaders]

Init ==
  /\ pc = "idle"
  /\ criteria = NoCriteria
  /\ files = <<>>
  /\ criteria_list = JNull
  /\ idx = 1
  /\ rows = <<>>
  /\ errors = <<>>
  /\ response = NoResponse
  /\ trace = <<>>

\* Lines 154-172: a request arrives and is validated.
Validate ==
  /\ pc = "idle"
  /\ \E c \in RawCriteria, fs \in FileLists :
       LET parsed == parse_criteria(c)
           bad == { i \in 1..Len(fs) : ~ValidFilename(fs[i]) }
           first_bad == CHOOSE i \in bad : \A j \in bad : i <= j
           rejected(line, detail) ==
             /\ pc' = "done"
             /\ response' = HTTPError(400, line, detail)
             /\ criteria_list' = IF parsed.ok THEN parsed.value ELSE JNull
       IN  /\ criteria' = c
           /\ files' = fs
           /\ IF ~parsed.ok THEN rejected(159, parsed.error)
              ELSE IF ~Truthy(parsed.value) THEN rejected(157, DetailNoCriterion)
              ELSE IF fs = <<>> THEN rejected(162, DetailNoFile)
              ELSE IF bad # {} THEN rejected(166, DetailBadFormat(fs[first_bad]))
              ELSE /\ pc' = "loop"
                   /\ criteria_list' = parsed.value
                   /\ response' = response
  /\ UNCHANGED <<idx, rows, errors, trace>>

\* Lines 174-199: one iteration of the processing loop.
ProcessFile ==
  /\ pc = "loop"
  /\ idx <= Len(files)
  /\ \E codec \in CodecOutcomes, oracle \in OracleOutcomes :
       LET filename == files[idx]
           text == extract_text_from_file(filename, codec)
           result == IF text.ok THEN evaluate_resume(oracle) ELSE text
           row == IF result.ok THEN BuildRow(filename, result.value, criteria_list)
                  ELSE result
           entry(outcome) ==
             [doc |-> idx, extracted |-> TRUE, evaluated |-> text.ok,
              result |-> IF outcome = "row" THEN result.value ELSE JNull,
              outcome |-> outcome]
       IN  IF row.ok
           THEN /\ rows' = Append(rows, row.value)
                /\ trace' = Append(trace, entry("row"))
                /\ idx' = idx + 1
                /\ UNCHANGED <<pc, errors, response>>
           ELSE IF Catches(row.exc)
           THEN /\ errors' = Append(errors, ErrorMessage(filename, row.exc))
                /\ trace' = Append(trace, entry("error"))
                /\ idx' = idx + 1
                /\ UNCHANGED <<pc, rows, response>>
           ELSE /\ pc' = "done"
                /\ response' = HTTPError(500, 176, row.exc.msg)
                /\ trace' = Append(trace, entry("raised"))
                /\ UNCHANGED <<idx, rows, errors>>
  /\ UNCHANGED <<criteria, files, criteria_list>>

\* Lines 201-233: after the loop.
Finish ==
  /\ pc = "loop"
  /\ idx > Len(files)
  /\ pc' = "done"
  /\ response' =
       IF NoRows(rows, errors)
       THEN HTTPError(400, 202, PrefixAllFailed \o Join(<<"; ">>, errors))
       ELSE Report(rows)
  /\ UNCHANGED <<criteria, files, criteria_list, idx, rows, errors, trace>>

Next == Validate \/ ProcessFile \/ Finish

Spec == Init /\ [][Next]_vars

----------------------------------------------------------------------------
\* Vocabulary of the properties.

StartsWith(s, pre) == Len(s) >= Len(pre) /\ SubSeq(s, 1, Len(pre)) = pre

\* The filename ends in neither .pdf nor .docx, whatever the letter case.
BadSuffix(f) == ~EndsWith(Lower(f), DotPdf) /\ ~EndsWith(Lower(f), DotDocx)
\* The filename has a supported extension, but not in lower case.
CaseMismatch(f) == ~BadSuffix(f) /\ ~EndsWith(f, DotPdf) /\ ~EndsWith(f, DotDocx)

Parsed == parse_criteria(criteria)
CriteriaAccepted == Parsed.ok /\ Truthy(Parsed.value)
InputProblem ==
  \/ ~CriteriaAccepted
  \/ files = <<>>
  \/ \E i \in 1..Len(files) : BadSuffix(files[i])

\* The documents that produced a row / an error entry, in processing order.
RowDocs == SelectSeq(trace, LAMBDA e : e.outcome = "row")
ErrorDocs == SelectSeq(trace, LAMBDA e : e.outcome = "error")
Succeeded == pc = "done" /\ response.status = 200
FinishedLoop == pc = "done" /\ response.line \in {202, 229}

\* The requested criteria, and the labels of their columns.
Crits == Iterate(criteria_list)
ScoreLabel(c) == Format(c) \o SuffixScore
ExplanationLabel(c) == Format(c) \o SuffixExplanation
\* The per-criterion score entries of a row: the positions whose key is a
\* "<criterion> (Score)" label.
ScoreEntries(row) == { i \in 1..Len(row) : EndsWith(row[i][1], SuffixScore) }
\* The scores map the oracle returned for the j-th row ({} when it sent none).
OracleScores(j) ==
  IF KeyScores \in DOMAIN RowDocs[j].result.v
  THEN RowDocs[j].result.v[KeyScores].v
  ELSE <<>>

\* The criteria list is what the contract asks for: a sequence of strings.
IsStringList(x) == x.t = "list" /\ \A i \in 1..Len(x.v) : x.v[i].t = "str"
NoRepeats(seq) == \A i, k \in 1..Len(seq) : seq[i] = seq[k] => i = k

RECURSIVE SumCells(_, _)
SumCells(row, entries) ==
  IF entries = {} THEN 0
  ELSE LET i == CHOOSE x \in entries : TRUE
       IN  row[i][2].v + SumCells(row, entries \ {i})

RECURSIVE SumLen(_)
SumLen(parts) == IF parts = <<>> THEN 0 ELSE Len(parts[1]) + SumLen(Tail(parts))

----------------------------------------------------------------------------
\* C1: every row built by score_resumes holds exactly one score entry per
\* criterion of the criteria list and none under any other key; the entry of
\* criterion c is the oracle's scores[c] when the oracle sent one, and 0
\* otherwise, whatever keys the oracle's scores map has.
C1_ScoreDefaultFill ==
  \A j \in 1..Len(rows) :
    LET row == rows[j]
        scores == OracleScores(j)
    IN  /\ { row[i][1] : i \in ScoreEntries(row) }
             = { ScoreLabel(Crits[n]) : n \in 1..Len(Crits) }
        /\ \A i1, i2 \in ScoreEntries(row) : row[i1][1] = row[i2][1] => i1 = i2
        /\ \A n \in 1..Len(Crits) :
             LET c == Crits[n]
                 cell == RowGet(row, ScoreLabel(c))
             IN  IF c.t = "str" /\ c.v \in DOMAIN scores
                 THEN cell = scores[c.v]
                 ELSE cell = JNum(0)

\* C1 witness: for criteria [A, B], one row built from an oracle answer that
\* scores only B, and one built from an answer without a scores map.
C1_Witness ==
  /\ Succeeded
  /\ criteria_list = JList(<<JStr(CritA), JStr(CritB)>>)
  /\ Len(rows) = 2
  /\ RowDocs[1].result.t = "dict" /\ DOMAIN OracleScores(1) = {CritB}
  /\ RowGet(rows[1], ScoreLabel(JStr(CritA))) = JNum(0)
  /\ RowGet(rows[1], ScoreLabel(JStr(CritB))) # JNum(0)
  /\ RowDocs[2].result = EmptyDict

\* C2: Total Score of every row equals the sum of the row's per-criterion
\* scores (after default-fill); oracle keys outside the criteria list
\* contribute nothing.  Stated for criteria lists of strings.
C2_TotalIsRowSum ==
  IsStringList(criteria_list) =>
  \A j \in 1..Len(rows) :
    RowGet(rows[j], ColTotalScore).v = SumCells(rows[j], ScoreEntries(rows[j]))

\* C3: each document is attempted exactly once, in input order, and yields
\* either one row or one error message; the rows follow the order of their
\* documents; a batch with k < N failures succeeds with N-k rows and k errors.
C3_PartialFailure ==
  /\ \A i \in 1..Len(trace) : trace[i].doc = i /\ trace[i].outcome \in {"row", "error"}
  /\ Len(trace) <= Len(files)
  /\ pc = "loop" => Len(trace) = idx - 1
  /\ Len(rows) = Len(RowDocs)
  /\ Len(errors) = Len(ErrorDocs)
  /\ \A j \in 1..Len(rows) :
       RowGet(rows[j], ColFilename) = JStr(files[RowDocs[j].doc])
  /\ \A j \in 1..Len(errors) :
       StartsWith(errors[j], <<"Error processing ">> \o files[ErrorDocs[j].doc])
  /\ (pc = "done" /\ ~InputProblem) =>
       /\ Len(trace) = Len(files)
       /\ Len(errors) < Len(files) =>
            /\ response.status = 200
            /\ Len(response.cells) = Len(files) - Len(errors)
            /\ \A j \in 1..Len(rows) : response.cells[j][1] = JStr(files[RowDocs[j].doc])

\* C3 witness: two documents, the first fails and the second yields the row.
C3_Witness ==
  /\ Succeeded
  /\ Len(files) = 2
  /\ Len(errors) = 1 /\ Len(rows) = 1
  /\ trace[1].outcome = "error" /\ trace[2].outcome = "row"
  /\ files[1] # files[2]

\* C4: a successful response carries every accumulated error message (in
\* its body, a header or any other field).  Stated for criteria lists of
\* strings.
Surfaced(msg) ==
  \/ Contains(response.detail, msg)
  \/ \E h \in response.headers : Contains(h, msg)
  \/ \E i \in 1..Len(response.cells) : \E j \in 1..Len(response.cells[i]) :
       response.cells[i][j].t = "str" /\ Contains(response.cells[i][j].v, msg)
C4_ErrorsSurfaced ==
  (Succeeded /\ IsStringList(criteria_list)) => \A n \in 1..Len(errors) : Surfaced(errors[n])

\* C5: when every document failed the handler raises the all-documents-failed
\* error, which carries all N messages joined, and no report is serialized;
\* that error is raised only when no document produced a row, and a
\* serialized report has at least one row.
C5_AllFailed ==
  /\ (FinishedLoop /\ RowDocs = <<>>) =>
       /\ response.status = 400 /\ response.line = 202
       /\ response.columns = <<>> /\ response.cells = <<>> /\ response.headers = {}
       /\ Len(errors) = Len(files)
       /\ StartsWith(response.detail, PrefixAllFailed)
       /\ \A n \in 1..Len(errors) :
            /\ Contains(response.detail, errors[n])
            /\ Contains(errors[n], files[n])
       /\ Len(response.detail)
            = Len(PrefixAllFailed) + SumLen(errors) + (Len(errors) - 1)
  /\ (pc = "done" /\ response.line = 202) => rows = <<>> /\ RowDocs = <<>>
  /\ Succeeded => Len(response.cells) >= 1 /\ Len(response.cells) = Len(RowDocs)

\* C5 witness: a batch of two documents, both failed.
C5_Witness ==
  /\ pc = "done" /\ response.line = 202
  /\ Len(files) = 2 /\ Len(errors) = 2
  /\ files[1] # files[2]

\* C6: when the criteria do not parse or are empty, when there is no file, or
\* when some filename has an unsupported extension, the request is rejected
\* with a 400 naming the cause, and at that moment nothing was extracted and
\* no oracle call was made; documents are processed only for valid input.
C6_ValidationFirst ==
  pc # "idle" =>
    LET parsed == Parsed
        accepted == parsed.ok /\ Truthy(parsed.value)
        bad == { i \in 1..Len(files) : BadSuffix(files[i]) }
        problem == ~accepted \/ files = <<>> \/ bad # {}
    IN  /\ problem =>
             /\ pc = "done" /\ response.status = 400
             /\ trace = <<>> /\ rows = <<>> /\ errors = <<>>
        /\ ~parsed.ok => response.line = 159 /\ response.detail = parsed.error
        /\ (parsed.ok /\ ~Truthy(parsed.value)) =>
             response.line = 157 /\ response.detail = DetailNoCriterion
        /\ (accepted /\ files = <<>>) =>
             response.line = 162 /\ response.detail = DetailNoFile
        /\ (accepted /\ bad # {}) =>
             /\ response.line = 166
             /\ \E i \in bad :
                  /\ \A k \in bad : i <= k
                  /\ Contains(response.detail, files[i])
        /\ trace # <<>> => ~problem

\* C6 witness: a valid document followed by a .txt one; the batch is rejected
\* and the valid document was not touched.
C6_Witness ==
  /\ pc = "done" /\ response.line = 166
  /\ Len(files) = 2
  /\ ~BadSuffix(files[1]) /\ ~CaseMismatch(files[1])
  /\ BadSuffix(files[2])
  /\ trace = <<>>

\* C7: the columns of the report are Filename, Candidate Name, the score
\* column of each criterion in criteria order, then the explanation column
\* of each criterion in criteria order, whatever text the criteria contain:
\* no column twice, no explanation column among the score columns.  Stated
\* for lists of distinct strings, and read in the code's favour: the two
\* summary columns Total Score and Average Score, which the report also
\* has, are left out of the comparison.
PerCriterionColumns ==
  SelectSeq(response.columns,
            LAMBDA col : col \notin {ColTotalScore, ColAverageScore})
C7_ColumnOrder ==
  (Succeeded /\ IsStringList(criteria_list) /\ NoRepeats(Crits)) =>
    PerCriterionColumns
      = base_cols
          \o [n \in 1..Len(Crits) |-> ScoreLabel(Crits[n])]
          \o [n \in 1..Len(Crits) |-> ExplanationLabel(Crits[n])]

\* C8: every per-criterion score stored in a row is an integer in 0..5.
\* Stated for criteria lists of strings.
C8_ScoreRange ==
  IsStringList(criteria_list) =>
  \A j \in 1..Len(rows) : \A i \in ScoreEntries(rows[j]) :
    rows[j][i][2].t = "num" /\ rows[j][i][2].v \in 0..5

\* C9: given JSON text or a mapping, parse_criteria returns only a sequence
\* of strings found under the key "criteria" of a mapping and fails
\* otherwise, so whenever the processing loop is reached the criteria list
\* is such a sequence.
C9_SchemaEnforced ==
  (pc = "loop" /\ criteria.shape \in {"str", "dict"}) =>
    /\ Parsed.ok
    /\ criteria.valid /\ criteria.doc.t = "dict"
    /\ KeyCriteria \in DOMAIN criteria.doc.v
    /\ IsStringList(Parsed.value)
    /\ criteria_list = Parsed.value

\* C10: a document whose extension is supported only up to letter case does
\* not reject the batch; its extraction fails before any oracle call, the
\* failure becomes one "Error processing <filename>: ..." entry and no row,
\* and every other document of the batch is still processed.
ErrorIndex(i) == Cardinality({ k \in 1..i : trace[k].outcome = "error" })
C10_CaseMismatch ==
  /\ \A i \in 1..Len(trace) :
       CaseMismatch(files[i]) =>
         /\ trace[i].extracted /\ ~trace[i].evaluated
         /\ trace[i].outcome = "error"
         /\ ErrorIndex(i) <= Len(errors)
         /\ StartsWith(errors[ErrorIndex(i)],
                       <<"Error processing ">> \o files[i] \o <<": ">>)
         /\ \A j \in 1..Len(RowDocs) : RowDocs[j].doc # i
  /\ Len(rows) = Len(RowDocs)
  /\ (pc # "idle" /\ ~InputProblem) =>
       /\ response.line # 166
       /\ pc = "done" => response.line \in {202, 229} /\ Len(trace) = Len(files)

\* C10 witness: 'c.PDF' then a lower-case document; the report has the one
\* row of the second document and one error for the first.
C10_Witness ==
  /\ Succeeded
  /\ Len(files) = 2
  /\ CaseMismatch(files[1]) /\ ~CaseMismatch(files[2])
  /\ Len(errors) = 1 /\ Len(rows) = 1
  /\ RowGet(rows[1], ColFilename) = JStr(files[2])

====
